---- MODULE Spec2Model ----
(***************************************************************************)
(* A model of the DNS forwarding server of dns_server.py: the wire-format  *)
(* codec (DNSHeader, DNSQuestion, DNSRecord, DNSMessage), the forwarding   *)
(* relay (forward_dns_query), the failure responder (create_response) and  *)
(* the serving loop (main).                                                *)
(*                                                                         *)
(* A Python bytes object is a sequence of naturals in 0..255 and a Python  *)
(* str a sequence of character codes.  An operation that can raise returns *)
(* a record with an ok field: [ok |-> TRUE, ...] for a value and           *)
(* [ok |-> FALSE, err |-> <exception class>] for a raised exception.       *)
(***************************************************************************)
EXTENDS Naturals, Sequences, FiniteSets, TLC

VARIABLES
    \* Header codec
    h_pc, h_in, h_trail, h_bytes, h_out,
    \* Name codec
    n_pc, n_name, n_buf, n_off, n_bytes, n_out,
    \* Message codec
    m_pc, m_in, m_buf, m_out,
    \* Step-by-step name decoder (the call stack of unpack_domain_name)
    d_buf, d_start, d_stack, d_status, d_ret,
    \* Serving loop
    pc, handled, request_data, client_address, request, sock,
    upstream, response_data, reply, sent, failure_built, raised

hvars == <<h_pc, h_in, h_trail, h_bytes, h_out>>
nvars == <<n_pc, n_name, n_buf, n_off, n_bytes, n_out>>
mvars == <<m_pc, m_in, m_buf, m_out>>
dvars == <<d_buf, d_start, d_stack, d_status, d_ret>>
svars == <<pc, handled, request_data, client_address, request, sock,
           upstream, response_data, reply, sent, failure_built, raised>>
vars == <<hvars, nvars, mvars, dvars, svars>>

(***************************************************************************)
(* Python primitives                                                       *)
(***************************************************************************)

\* A raised exception of class e.
Raise(e) == [ok |-> FALSE, err |-> e]

\* x << n and x >> n on non-negative integers.
Shl(x, n) == x * 2^n
Shr(x, n) == x \div 2^n

RECURSIVE BitAnd(_, _)
\* x & y on non-negative integers.
BitAnd(x, y) ==
    IF x = 0 \/ y = 0 THEN 0
    ELSE (x % 2) * (y % 2) + 2 * BitAnd(x \div 2, y \div 2)

RECURSIVE BitOr(_, _)
\* x | y on non-negative integers.
BitOr(x, y) ==
    IF x = 0 THEN y
    ELSE IF y = 0 THEN x
    ELSE (IF x % 2 = 1 \/ y % 2 = 1 THEN 1 ELSE 0) + 2 * BitOr(x \div 2, y \div 2)

\* data[a:b] for 0 <= a: the slice is cut at the end of data, never raises.
Slice(data, a, b) ==
    LET hi == IF b < Len(data) THEN b ELSE Len(data)
    IN  IF a >= hi THEN <<>> ELSE [i \in 1..(hi - a) |-> data[a + i]]

\* The big-endian unsigned integer held by a byte sequence.
RECURSIVE BigEndian(_)
BigEndian(bs) ==
    IF bs = <<>> THEN 0
    ELSE 256 * BigEndian(SubSeq(bs, 1, Len(bs) - 1)) + bs[Len(bs)]

\* struct.pack('B', v), struct.pack('>H', v), struct.pack('>I', v):
\* struct.error when v does not fit the field.  (The 32-bit bound is written
\* on v's high half: the model's integers end at 2^31 - 1, so its ttl values
\* stay below 2^31.)
PackB(v) == IF v < 256 THEN [ok |-> TRUE, bytes |-> <<v>>] ELSE Raise("struct.error")
PackH(v) ==
    IF v < 65536 THEN [ok |-> TRUE, bytes |-> <<v \div 256, v % 256>>]
    ELSE Raise("struct.error")
PackI(v) ==
    IF v \div 65536 < 65536
    THEN [ok |-> TRUE,
          bytes |-> <<v \div 16777216, (v \div 65536) % 256, (v \div 256) % 256, v % 256>>]
    ELSE Raise("struct.error")

\* pack results chained with +=: the first exception wins.
Cat(a, b) ==
    IF ~a.ok THEN a
    ELSE IF ~b.ok THEN b
    ELSE [ok |-> TRUE, bytes |-> a.bytes \o b.bytes]

Bytes(bs) == [ok |-> TRUE, bytes |-> bs]

(***************************************************************************)
(* DNSHeader                                                               *)
(***************************************************************************)

\* DNSHeader.__init__ called as create_response and unpack call it.
DNSHeader(id, qr, opcode, aa, tc, rd, ra, z, rcode, qdcount, ancount, nscount, arcount) ==
    [id |-> id, qr |-> qr, opcode |-> opcode, aa |-> aa, tc |-> tc, rd |-> rd,
     ra |-> ra, z |-> z, rcode |-> rcode, qdcount |-> qdcount, ancount |-> ancount,
     nscount |-> nscount, arcount |-> arcount]

\* A slip in the flags word: the reserved field shifted into rcode's bits.
HeaderFlags_zShift3(h) ==
    BitOr(BitOr(BitOr(BitOr(BitOr(BitOr(BitOr(
        Shl(h.qr, 15), Shl(h.opcode, 11)), Shl(h.aa, 10)),
        Shl(h.tc, 9)), Shl(h.rd, 8)), Shl(h.ra, 7)),
        Shl(h.z, 3)), h.rcode)

\* The flags word of DNSHeader.pack.
HeaderFlags(h) ==
    BitOr(BitOr(BitOr(BitOr(BitOr(BitOr(BitOr(
        Shl(h.qr, 15), Shl(h.opcode, 11)), Shl(h.aa, 10)),
        Shl(h.tc, 9)), Shl(h.rd, 8)), Shl(h.ra, 7)),
        Shl(h.z, 4)), h.rcode)

\* DNSHeader.pack
DNSHeader_pack(h) ==
    Cat(Cat(Cat(Cat(Cat(PackH(h.id), PackH(HeaderFlags(h))),
        PackH(h.qdcount)), PackH(h.ancount)), PackH(h.nscount)), PackH(h.arcount))

\* DNSHeader.unpack: struct.unpack('>HHHHHH', data[:12]) needs 12 bytes.
DNSHeader_unpack(data) ==
    LET d == Slice(data, 0, 12)
        flags == BigEndian(SubSeq(d, 3, 4))
    IN  IF Len(d) # 12 THEN Raise("struct.error")
        ELSE [ok |-> TRUE,
              header |-> DNSHeader(
                  BigEndian(SubSeq(d, 1, 2)),
                  BitAnd(Shr(flags, 15), 1),
                  BitAnd(Shr(flags, 11), 15),
                  BitAnd(Shr(flags, 10), 1),
                  BitAnd(Shr(flags, 9), 1),
                  BitAnd(Shr(flags, 8), 1),
                  BitAnd(Shr(flags, 7), 1),
                  BitAnd(Shr(flags, 4), 7),
                  BitAnd(flags, 15),
                  BigEndian(SubSeq(d, 5, 6)),
                  BigEndian(SubSeq(d, 7, 8)),
                  BigEndian(SubSeq(d, 9, 10)),
                  BigEndian(SubSeq(d, 11, 12)))]

(***************************************************************************)
(* DNSQuestion: the name codec                                             *)
(***************************************************************************)

\* main reads at most this many bytes of a datagram: recvfrom(512).
MaxDatagram == 512

\* The interpreter's limit on the depth of its call stack: CPython's default
\* sys.getrecursionlimit(), which the code never changes.
PyRecursionLimit == 1000

\* The frames under the first call of unpack_domain_name when the server
\* decodes a datagram: the module, main, create_response, DNSMessage.unpack
\* and DNSQuestion.unpack (or DNSRecord.unpack).
CallerFrames == 5

\* The number of nested calls of unpack_domain_name that the interpreter
\* allows before it raises RecursionError (the code itself has no guard).
\* The call that fills the last frame has no level left for a call of its
\* own: its next recursive call, the filter(...) of its return statement and
\* the construction of a UnicodeDecodeError all end in RecursionError; its
\* reads and its IndexError need no level.
RecursionLimit == PyRecursionLimit - CallerFrames

\* The code of '.'.
Dot == 46

\* Index of the first '.' of s, 0 when it has none.
FirstDot(s) ==
    IF \E i \in 1..Len(s) : s[i] = Dot
    THEN CHOOSE i \in 1..Len(s) : s[i] = Dot /\ \A j \in 1..(i - 1) : s[j] # Dot
    ELSE 0

RECURSIVE Split(_)
\* domain_name.split('.'): always at least one label, '' gives [''].
Split(s) ==
    LET i == FirstDot(s)
    IN  IF i = 0 THEN <<s>>
        ELSE <<SubSeq(s, 1, i - 1)>> \o Split(SubSeq(s, i + 1, Len(s)))

RECURSIVE Join(_)
\* '.'.join(parts)
Join(parts) ==
    IF parts = <<>> THEN <<>>
    ELSE IF Len(parts) = 1 THEN parts[1]
    ELSE parts[1] \o <<Dot>> \o Join(Tail(parts))

\* A slip in the join: the empty strings kept.
FilterNone_keepAll(parts) == parts

\* filter(None, parts): the empty strings dropped.
FilterNone(parts) == SelectSeq(parts, LAMBDA p : p # <<>>)

\* label.encode('ascii')
EncodeAscii(label) ==
    IF \E i \in 1..Len(label) : label[i] >= 128 THEN Raise("UnicodeEncodeError")
    ELSE Bytes(label)

RECURSIVE PackLabels(_)
\* The loop of pack_domain_name: a length byte and the bytes of every label.
PackLabels(labels) ==
    IF labels = <<>> THEN Bytes(<<>>)
    ELSE Cat(Cat(PackB(Len(Head(labels))), EncodeAscii(Head(labels))),
             PackLabels(Tail(labels)))

\* A slip in pack_domain_name: the terminating zero byte left out.
pack_domain_name_noTerminator(domain_name) == PackLabels(Split(domain_name))

\* DNSQuestion.pack_domain_name
pack_domain_name(domain_name) == Cat(PackLabels(Split(domain_name)), PackB(0))

\* A pointer's target with the high six bits dropped.
PointerOffset_lowByte(length, lo) == lo

\* pointer_offset = ((length & 0x3F) << 8) | data[offset]
PointerOffset(length, lo) == BitOr(Shl(BitAnd(length, 63), 8), lo)

RECURSIVE FirstPointer(_, _)
\* The offset of the first pointer that the loop started at `offset` reaches,
\* as a sequence of one; empty when the loop ends before a pointer, at the
\* zero byte or in a fault.
FirstPointer(data, offset) ==
    IF offset >= Len(data) THEN <<>>
    ELSE
    LET length == data[offset + 1]
    IN  IF BitAnd(length, 192) = 192
        THEN IF offset + 1 >= Len(data) THEN <<>> ELSE <<offset>>
        ELSE IF length = 0 THEN <<>>
        ELSE LET label == Slice(data, offset + 1, offset + 1 + length)
             IN  IF \E i \in 1..Len(label) : label[i] >= 128 THEN <<>>
                 ELSE FirstPointer(data, offset + 1 + length)

RECURSIVE Runaway(_, _, _)
\* The calls started at `offset` never end.  Each call reads the buffer only,
\* so a chain of more calls than the buffer has bytes has started twice at
\* one offset and repeats itself until the interpreter stops it.  (o, c and
\* p name the values of the arguments and of the scan, each computed once.)
Runaway(data, offset, calls) ==
    \E o \in {offset}, c \in {calls} :
       \/ c > Len(data)
       \/ /\ c <= Len(data)
          /\ \E p \in {FirstPointer(data, o)} :
                /\ p # <<>>
                /\ Runaway(data, PointerOffset(data[p[1] + 1], data[p[1] + 2]), c + 1)

RECURSIVE UnpackFrames(_, _, _, _)
\* The body of unpack_domain_name at recursion depth `depth`, its loop
\* unrolled: offset and name_parts are the loop's variables.
UnpackFrames(data, offset, name_parts, depth) ==
    IF offset >= Len(data) THEN Raise("IndexError")
    ELSE
    LET length == data[offset + 1]
    IN  IF BitAnd(length, 192) = 192
        THEN IF offset + 1 >= Len(data) THEN Raise("IndexError")
             ELSE IF depth + 1 >= RecursionLimit THEN Raise("RecursionError")
             ELSE LET pointed == UnpackFrames(data, PointerOffset(length, data[offset + 2]),
                                              <<>>, depth + 1)
                  IN  IF ~pointed.ok THEN pointed
                      ELSE [ok |-> TRUE,
                            name |-> Join(FilterNone(Append(name_parts, pointed.name))),
                            offset |-> offset + 2]
        ELSE IF length = 0
        THEN IF depth + 1 >= RecursionLimit THEN Raise("RecursionError")
             ELSE [ok |-> TRUE, name |-> Join(FilterNone(name_parts)), offset |-> offset + 1]
        ELSE LET label == Slice(data, offset + 1, offset + 1 + length)
             IN  IF \E i \in 1..Len(label) : label[i] >= 128
                 THEN IF depth + 1 >= RecursionLimit THEN Raise("RecursionError")
                      ELSE Raise("UnicodeDecodeError")
                 ELSE UnpackFrames(data, offset + 1 + length, Append(name_parts, label), depth)

\* unpack_domain_name entered at recursion depth `depth` with the loop at
\* offset.  A chain of calls that never ends is not followed call by call:
\* it ends where the code ends it, in the RecursionError of the call at the
\* interpreter's limit.
UnpackName(data, offset, name_parts, depth) ==
    IF Runaway(data, offset, 0) THEN Raise("RecursionError")
    ELSE UnpackFrames(data, offset, name_parts, depth)

\* DNSQuestion.unpack_domain_name
unpack_domain_name(data, offset) == UnpackName(data, offset, <<>>, 0)

(***************************************************************************)
(* Variable groups left alone by a specification that does not use them    *)
(***************************************************************************)

HOff == h_pc = "off" /\ h_in = <<>> /\ h_trail = <<>> /\ h_bytes = <<>> /\ h_out = <<>>
NOff == n_pc = "off" /\ n_name = <<>> /\ n_buf = <<>> /\ n_off = 0 /\ n_bytes = <<>>
        /\ n_out = <<>>
MOff == m_pc = "off" /\ m_in = <<>> /\ m_buf = <<>> /\ m_out = <<>>
DOff == d_buf = <<>> /\ d_start = 0 /\ d_stack = <<>> /\ d_status = "off" /\ d_ret = <<>>
SOff == /\ pc = "off" /\ handled = 0 /\ request_data = <<>> /\ client_address = 0
        /\ request = <<>> /\ sock = <<>> /\ upstream = <<>>
        /\ response_data = <<>> /\ reply = <<>> /\ sent = <<>> /\ failure_built = FALSE
        /\ raised = "none"

(***************************************************************************)
(* Header codec: pack a header, unpack the bytes with trailing data        *)
(***************************************************************************)

\* Headers with every field inside its bit width, the extremes included.
HeaderInputs ==
    [id : {0, 1234, 65535}, qr : {0, 1}, opcode : {0, 5, 15}, aa : {0, 1}, tc : {0, 1},
     rd : {0, 1}, ra : {0, 1}, z : {0, 5, 7}, rcode : {0, 2, 15},
     qdcount : {0, 1, 65535}, ancount : {0, 65535}, nscount : {0, 258},
     arcount : {0, 1}]

\* Data following the 12 header bytes in the buffer handed to unpack.
TrailInputs == {<<>>, <<255>>, <<3, 119, 119, 119, 0>>}

InitHeader ==
    /\ h_pc = "start" /\ h_in \in HeaderInputs /\ h_trail \in TrailInputs
    /\ h_bytes = <<>> /\ h_out = <<>>
    /\ NOff /\ MOff /\ DOff /\ SOff

HeaderPack ==
    /\ h_pc = "start"
    /\ h_bytes' = DNSHeader_pack(h_in)
    /\ h_pc' = "packed"
    /\ UNCHANGED <<h_in, h_trail, h_out, nvars, mvars, dvars, svars>>

HeaderUnpack ==
    /\ h_pc = "packed" /\ h_bytes.ok
    /\ h_out' = DNSHeader_unpack(h_bytes.bytes \o h_trail)
    /\ h_pc' = "unpacked"
    /\ UNCHANGED <<h_in, h_trail, h_bytes, nvars, mvars, dvars, svars>>

NextHeader == HeaderPack \/ HeaderUnpack

SpecHeader == InitHeader /\ [][NextHeader]_vars

\* C8: a header whose fields are within their bit widths packs to exactly 12
\* bytes, and unpacking those bytes, whatever data follows them, gives back
\* every field.
C8_HeaderRoundTrip ==
    /\ h_pc \in {"packed", "unpacked"} => h_bytes.ok /\ Len(h_bytes.bytes) = 12
    /\ h_pc = "unpacked" =>
          /\ h_out = [ok |-> TRUE, header |-> h_in]
          /\ h_out = DNSHeader_unpack(h_bytes.bytes)

\* A header with every field at its maximum went through pack and unpack
\* with trailing data behind it.
C8_Witness ==
    /\ h_pc = "unpacked" /\ h_trail # <<>>
    /\ h_in.z = 7 /\ h_in.rcode = 15 /\ h_in.opcode = 15 /\ h_in.id = 65535
    /\ h_out.ok /\ h_out.header.z = 7

(***************************************************************************)
(* Name codec: encode a name and decode it back; decode a buffer           *)
(***************************************************************************)

\* Longest enumerated name (characters) and buffer (bytes).
MaxName == 4
MaxBuf == 4

\* Characters of the enumerated names: 'a', 'b' and '.'.
NameAlphabet == {97, 98, Dot}

\* Bytes of the enumerated buffers: the terminator, small lengths and
\* offsets, the letter 'a', and pointer bytes with high bits 0 and 1.
BufAlphabet == {0, 1, 2, 97, 192, 193}

SeqsUpTo(S, n) == UNION {[1..k -> S] : k \in 0..n}

Rep(c, n) == [i \in 1..n |-> c]

\* "example" and "example.com"
ExampleName == <<101, 120, 97, 109, 112, 108, 101>>
ExampleCom == ExampleName \o <<Dot, 99, 111, 109>>

\* Every string over the alphabet up to MaxName characters (empty labels,
\* leading and trailing dots included), the names of the documentation, and
\* labels of 63 and 64 characters.
NameInputs ==
    SeqsUpTo(NameAlphabet, MaxName)
    \cup {ExampleName, ExampleCom, Rep(97, 63), Rep(97, 63) \o <<Dot, 98>>, Rep(97, 64)}

\* A 12-byte header, the name "example" at offset 12 and, after it, a pointer
\* (0xC0, 12) at offset 21.
ExampleBuffer == Rep(0, 12) \o <<7>> \o ExampleName \o <<0, 192, 12>>

\* Labels before a pointer, pointers to pointers, a pointer followed by data.
PointerBuffers ==
    {ExampleBuffer,
     <<1, 97, 0, 1, 98, 192, 0, 1, 97, 0>>,
     <<0, 1, 98, 192, 0, 97>>,
     <<1, 97, 0, 192, 0, 192, 3, 2, 98, 98, 192, 5, 0>>}

BufInputs == SeqsUpTo(BufAlphabet, MaxBuf) \cup PointerBuffers

InitName ==
    /\ \/ n_pc = "name" /\ n_name \in NameInputs /\ n_buf = <<>> /\ n_off = 0
       \/ n_pc = "buf" /\ n_name = <<>> /\ n_buf \in BufInputs /\ n_off \in 0..Len(n_buf)
    /\ n_bytes = <<>> /\ n_out = <<>>
    /\ HOff /\ MOff /\ DOff /\ SOff

NamePack ==
    /\ n_pc = "name"
    /\ n_bytes' = pack_domain_name(n_name)
    /\ n_pc' = "packed"
    /\ UNCHANGED <<n_name, n_buf, n_off, n_out, hvars, mvars, dvars, svars>>

NameRoundTrip ==
    /\ n_pc = "packed" /\ n_bytes.ok
    /\ n_out' = unpack_domain_name(n_bytes.bytes, 0)
    /\ n_pc' = "roundtrip"
    /\ UNCHANGED <<n_name, n_buf, n_off, n_bytes, hvars, mvars, dvars, svars>>

NameUnpack ==
    /\ n_pc = "buf"
    /\ n_out' = unpack_domain_name(n_buf, n_off)
    /\ n_pc' = "decoded"
    /\ UNCHANGED <<n_name, n_buf, n_off, n_bytes, hvars, mvars, dvars, svars>>

NextName == NamePack \/ NameRoundTrip \/ NameUnpack

SpecName == InitName /\ [][NextName]_vars

\* A name of one or more labels, none empty and none longer than 63 bytes,
\* all ASCII: no dot first, last or next to another dot, and a dot in every
\* run of 64 characters.
ValidName(name) ==
    /\ Len(name) >= 1
    /\ name[1] # Dot /\ name[Len(name)] # Dot
    /\ \A i \in 1..(Len(name) - 1) : ~(name[i] = Dot /\ name[i + 1] = Dot)
    /\ \A i \in 1..Len(name) : name[i] < 128
    /\ \A i \in 1..Len(name) :
          i + 63 <= Len(name) => \E j \in i..(i + 63) : name[j] = Dot

\* C5: a name of one or more non-empty ASCII labels of at most 63 bytes is
\* encoded without error, ends with the zero byte, and decoding the encoding
\* at offset 0 returns the name and the length of the encoding.
C5_NameRoundTrip ==
    ValidName(n_name) =>
      /\ n_pc \in {"packed", "roundtrip"} =>
            /\ n_bytes.ok
            /\ n_bytes.bytes[Len(n_bytes.bytes)] = 0
      /\ n_pc = "roundtrip" =>
            n_out = [ok |-> TRUE, name |-> n_name, offset |-> Len(n_bytes.bytes)]

\* A two-label name whose first label has the full 63 bytes was encoded and
\* decoded.
C5_Witness ==
    /\ n_pc = "roundtrip" /\ n_name = Rep(97, 63) \o <<Dot, 98>>
    /\ n_out.ok /\ n_out.offset = 67

\* C9 (as claimed): only the non-empty labels of the name are emitted, each
\* with its length byte, then one zero byte; so '' encodes to a single zero
\* byte and no zero byte precedes the terminator.
C9_OnlyNonEmptyLabels ==
    (n_pc = "packed" /\ n_bytes.ok) =>
      /\ n_bytes = Cat(PackLabels(FilterNone(Split(n_name))), PackB(0))
      /\ n_name = <<>> => n_bytes.bytes = <<0>>
      /\ \A i \in 1..(Len(n_bytes.bytes) - 1) : n_bytes.bytes[i] # 0

RECURSIVE ScanToPointer(_, _, _)
\* Reading plain ASCII labels from pos: whether a compression pointer (a
\* length byte of 192 or more, with its second byte in the buffer) is the
\* first thing met after them, where, and the labels read before it.
ScanToPointer(data, pos, labels) ==
    IF pos >= Len(data) THEN [found |-> FALSE]
    ELSE LET b == data[pos + 1]
         IN  IF b >= 192
             THEN IF pos + 1 < Len(data)
                  THEN [found |-> TRUE, pos |-> pos, labels |-> labels]
                  ELSE [found |-> FALSE]
             ELSE IF b = 0 \/ pos + b >= Len(data) THEN [found |-> FALSE]
             ELSE IF \E i \in 1..b : data[pos + 1 + i] >= 128 THEN [found |-> FALSE]
             ELSE ScanToPointer(data, pos + 1 + b,
                                Append(labels, [i \in 1..b |-> data[pos + 1 + i]]))

\* The labels, dot-separated, followed by a name.
LabelsThenName(labels, name) ==
    IF name = <<>> THEN Join(labels)
    ELSE IF labels = <<>> THEN name
    ELSE Join(labels) \o <<Dot>> \o name

\* C6: when the decode meets a compression pointer, the result is the labels
\* read before it followed by the name decoded at the pointer's 14-bit target
\* (and fails when that decode fails), and the returned offset is the position
\* after the pointer's two bytes; the pointer (0xC0, 12) at offset 21 to
\* "example" at offset 12 decodes to "example".
C6_PointerDecode ==
    n_pc = "decoded" =>
      /\ LET s == ScanToPointer(n_buf, n_off, <<>>)
         IN  s.found =>
               LET target == (n_buf[s.pos + 1] % 64) * 256 + n_buf[s.pos + 2]
                   pointed == unpack_domain_name(n_buf, target)
               IN  IF pointed.ok
                   THEN n_out = [ok |-> TRUE,
                                 name |-> LabelsThenName(s.labels, pointed.name),
                                 offset |-> s.pos + 2]
                   ELSE ~n_out.ok
      /\ (n_buf = ExampleBuffer /\ n_off = 21) =>
            n_out = [ok |-> TRUE, name |-> ExampleName, offset |-> 23]

\* A label, then a pointer to a non-empty name, with data after the pointer:
\* the decode returned the offset just after the pointer.
C6_Witness ==
    /\ n_pc = "decoded" /\ n_out.ok
    /\ LET s == ScanToPointer(n_buf, n_off, <<>>)
       IN  /\ s.found /\ s.labels # <<>>
           /\ n_out.name # Join(s.labels)
           /\ n_out.offset = s.pos + 2 /\ n_out.offset < Len(n_buf)

(***************************************************************************)
(* DNSQuestion, DNSRecord, DNSMessage                                      *)
(***************************************************************************)

\* DNSQuestion.__init__
DNSQuestion(name, qtype, qclass) == [name |-> name, qtype |-> qtype, qclass |-> qclass]

\* DNSQuestion.pack
DNSQuestion_pack(q) ==
    Cat(pack_domain_name(q.name), Cat(PackH(q.qtype), PackH(q.qclass)))

\* DNSQuestion.unpack: struct.unpack('>HH', data[offset:offset+4]) needs 4 bytes.
DNSQuestion_unpack(data, offset) ==
    LET n == unpack_domain_name(data, offset)
    IN  IF ~n.ok THEN n
        ELSE LET f == Slice(data, n.offset, n.offset + 4)
             IN  IF Len(f) # 4 THEN Raise("struct.error")
                 ELSE [ok |-> TRUE,
                       item |-> DNSQuestion(n.name, BigEndian(SubSeq(f, 1, 2)),
                                            BigEndian(SubSeq(f, 3, 4))),
                       offset |-> n.offset + 4]

\* DNSRecord.__init__
DNSRecord(name, record_type, record_class, ttl, rdata) ==
    [name |-> name, record_type |-> record_type, record_class |-> record_class,
     ttl |-> ttl, rdata |-> rdata]

\* DNSRecord.pack
DNSRecord_pack(r) ==
    Cat(Cat(pack_domain_name(r.name),
            Cat(Cat(Cat(PackH(r.record_type), PackH(r.record_class)), PackI(r.ttl)),
                PackH(Len(r.rdata)))),
        Bytes(r.rdata))

\* DNSRecord.unpack: struct.unpack('>HHIH', data[offset:offset+10]) needs 10
\* bytes; the rdata slice is cut at the end of the buffer without an error,
\* and the returned offset may lie past the end.
DNSRecord_unpack(data, offset) ==
    LET n == unpack_domain_name(data, offset)
    IN  IF ~n.ok THEN n
        ELSE LET f == Slice(data, n.offset, n.offset + 10)
                 data_length == BigEndian(SubSeq(f, 9, 10))
             IN  IF Len(f) # 10 THEN Raise("struct.error")
                 ELSE [ok |-> TRUE,
                       item |-> DNSRecord(n.name, BigEndian(SubSeq(f, 1, 2)),
                                          BigEndian(SubSeq(f, 3, 4)),
                                          BigEndian(SubSeq(f, 5, 8)),
                                          Slice(data, n.offset + 10,
                                                n.offset + 10 + data_length)),
                       offset |-> n.offset + 10 + data_length]

\* DNSMessage.__init__
DNSMessage(header, questions, answers) ==
    [header |-> header, questions |-> questions, answers |-> answers]

RECURSIVE PackQuestions(_)
\* for question in self.questions: message += question.pack()
PackQuestions(qs) ==
    IF qs = <<>> THEN Bytes(<<>>)
    ELSE Cat(DNSQuestion_pack(Head(qs)), PackQuestions(Tail(qs)))

RECURSIVE PackAnswers(_)
\* for answer in self.answers: message += answer.pack()
PackAnswers(rs) ==
    IF rs = <<>> THEN Bytes(<<>>)
    ELSE Cat(DNSRecord_pack(Head(rs)), PackAnswers(Tail(rs)))

\* DNSMessage.pack
DNSMessage_pack(m) ==
    Cat(Cat(DNSHeader_pack(m.header), PackQuestions(m.questions)), PackAnswers(m.answers))

RECURSIVE UnpackQuestions(_, _, _, _)
\* for _ in range(header.qdcount): the n questions left to read at offset.
UnpackQuestions(data, offset, n, acc) ==
    IF n = 0 THEN [ok |-> TRUE, items |-> acc, offset |-> offset]
    ELSE LET q == DNSQuestion_unpack(data, offset)
         IN  IF ~q.ok THEN q
             ELSE UnpackQuestions(data, q.offset, n - 1, Append(acc, q.item))

RECURSIVE UnpackAnswers(_, _, _, _)
\* for _ in range(header.ancount): the n answers left to read at offset.
UnpackAnswers(data, offset, n, acc) ==
    IF n = 0 THEN [ok |-> TRUE, items |-> acc, offset |-> offset]
    ELSE LET r == DNSRecord_unpack(data, offset)
         IN  IF ~r.ok THEN r
             ELSE UnpackAnswers(data, r.offset, n - 1, Append(acc, r.item))

\* DNSMessage.unpack, the return: the message of the header, the questions
\* and the answers read, or the exception the answers loop raised.
UnpackedMessage(h, qs, rs) ==
    IF ~rs.ok THEN rs
    ELSE [ok |-> TRUE, message |-> DNSMessage(h.header, qs.items, rs.items)]

\* DNSMessage.unpack from the answers loop on, which starts at the offset
\* the questions loop ended at.
UnpackFromAnswers(data, h, qs) ==
    IF ~qs.ok THEN qs
    ELSE UnpackedMessage(h, qs, UnpackAnswers(data, qs.offset, h.header.ancount, <<>>))

\* DNSMessage.unpack from the questions loop on, which starts at offset 12.
UnpackFromQuestions(data, h) ==
    IF ~h.ok THEN h
    ELSE UnpackFromAnswers(data, h, UnpackQuestions(data, 12, h.header.qdcount, <<>>))

\* DNSMessage.unpack
DNSMessage_unpack(data) == UnpackFromQuestions(data, DNSHeader_unpack(data))

(***************************************************************************)
(* Message codec: pack a message, cut the bytes short, unpack              *)
(***************************************************************************)

\* Most questions and answers of an enumerated message.
MaxQuestions == 2
MaxAnswers == 2

\* The root name '', "a" and "a.b".
MsgNames == {<<>>, <<97>>, <<97, Dot, 98>>}

QuestionInputs == {DNSQuestion(n, t, 1) : n \in MsgNames, t \in {1, 255}}

RecordInputs ==
    {DNSRecord(n, 1, 1, t, d) : n \in {<<>>, <<97, Dot, 98>>}, t \in {0, 300},
                                d \in {<<>>, <<10, 0, 0, 1>>}}

\* The header of the test client's query, id 1234 and every flag clear, with
\* the given counts.
QueryHeader(qd, an) == DNSHeader(1234, 0, 0, 0, 0, 0, 0, 0, 0, qd, an, 0, 0)

\* Messages whose header counts equal the lengths of their lists.
MessageInputs ==
    {DNSMessage(QueryHeader(Len(qs), Len(rs)), qs, rs) :
        qs \in SeqsUpTo(QuestionInputs, MaxQuestions),
        rs \in SeqsUpTo(RecordInputs, MaxAnswers)}

InitMsg ==
    /\ m_pc = "start" /\ m_in \in MessageInputs /\ m_buf = <<>> /\ m_out = <<>>
    /\ HOff /\ NOff /\ DOff /\ SOff

MsgPack ==
    /\ m_pc = "start"
    /\ m_buf' = DNSMessage_pack(m_in)
    /\ m_pc' = "packed"
    /\ UNCHANGED <<m_in, m_out, hvars, nvars, dvars, svars>>

\* The datagram arrives whole.
MsgUnpack ==
    /\ m_pc = "packed" /\ m_buf.ok
    /\ m_out' = DNSMessage_unpack(m_buf.bytes)
    /\ m_pc' = "unpacked"
    /\ UNCHANGED <<m_in, m_buf, hvars, nvars, dvars, svars>>

\* The datagram arrives cut to its first k bytes: the header, when it is there,
\* still declares the counts of the whole message.
MsgUnpackShort ==
    /\ m_pc = "packed" /\ m_buf.ok
    /\ \E k \in 0..(Len(m_buf.bytes) - 1) :
          /\ m_buf' = Bytes(SubSeq(m_buf.bytes, 1, k))
          /\ m_out' = DNSMessage_unpack(SubSeq(m_buf.bytes, 1, k))
    /\ m_pc' = "short"
    /\ UNCHANGED <<m_in, hvars, nvars, dvars, svars>>

NextMsg == MsgPack \/ MsgUnpack \/ MsgUnpackShort

SpecMsg == InitMsg /\ [][NextMsg]_vars

\* C4 (as claimed): unpack(pack(m)) gives back the header counts, the
\* questions and the answers of every message whose counts match its lists,
\* the root name '' among the names.
C4_MessageRoundTrip ==
    m_pc = "unpacked" =>
      /\ m_out.ok
      /\ m_out.message.header.qdcount = m_in.header.qdcount
      /\ m_out.message.header.ancount = m_in.header.ancount
      /\ m_out.message.questions = m_in.questions
      /\ m_out.message.answers = m_in.answers

\* No question or answer of m has the root name (whose encoding the decoder
\* does not read back whole, so that cutting it short is another matter).
NoRootName(m) ==
    /\ \A i \in 1..Len(m.questions) : m.questions[i].name # <<>>
    /\ \A i \in 1..Len(m.answers) : m.answers[i].name # <<>>

\* C7 (as claimed): unpacking a buffer that is too short for what its header
\* declares (here the encoding of a message, cut anywhere before its end)
\* raises; no message comes out of partial data.
C7_ShortBufferFaults ==
    (m_pc = "short" /\ NoRootName(m_in)) => ~m_out.ok

(***************************************************************************)
(* unpack_domain_name step by step: its stack of calls                     *)
(*                                                                         *)
(* A frame is one call: offset and name_parts are its loop variables.  The *)
(* last frame of d_stack is the running call.  A call that meets a pointer *)
(* has moved its offset past the pointer's two bytes and waits for the     *)
(* call it made.                                                           *)
(***************************************************************************)

\* Bytes of the decoded buffers.
\* The longest buffer of the decoder run call by call: a cyclic one costs
\* as many steps as the interpreter allows calls.
MaxDecode == 3

DecodeAlphabet == {0, 1, 192, 193}

\* Two pointers that point at each other behind a label.
CycleBuffer == <<1, 97, 192, 5, 0, 192, 2>>

\* Two pointers that point at each other and nothing else.
PointerPair == <<192, 2, 192, 0>>

DecodeInputs ==
    SeqsUpTo(DecodeAlphabet, MaxDecode) \cup PointerBuffers \cup {CycleBuffer, PointerPair}

\* A chain without a cycle that needs every frame the interpreter allows:
\* at each even offset below the last a pointer to the offset two further,
\* and the zero byte at the end.  Decoded from offset 0 its zero byte is read
\* in the last frame, from offset 2 in the frame before the last.
LongChain ==
    [i \in 1..(2 * (RecursionLimit - 1) + 1) |->
        IF i = 2 * (RecursionLimit - 1) + 1 THEN 0
        ELSE IF i % 2 = 1 THEN 192 + ((i + 1) \div 256) ELSE i % 256]

Top == d_stack[Len(d_stack)]
Pop == SubSeq(d_stack, 1, Len(d_stack) - 1)
Running == d_status = "run" /\ d_stack # <<>>
AtByte == Top.offset < Len(d_buf)
Length == d_buf[Top.offset + 1]
IsPointer == BitAnd(Length, 192) = 192

\* An exception leaves every frame: nothing in the code catches it.
DecodeRaise(e) ==
    /\ d_status' = "raised"
    /\ d_ret' = Raise(e)
    /\ d_stack' = <<>>

InitDecode ==
    /\ \/ d_buf \in DecodeInputs /\ d_start \in 0..Len(d_buf)
       \/ d_buf = LongChain /\ d_start \in {0, 2}
    /\ d_stack = <<[offset |-> d_start, name_parts |-> <<>>]>>
    /\ d_status = "run" /\ d_ret = <<>>
    /\ HOff /\ NOff /\ MOff /\ SOff

\* length = data[offset] past the end of the buffer: IndexError.
DecodeReadFault ==
    /\ Running /\ ~AtByte
    /\ DecodeRaise("IndexError")
    /\ UNCHANGED <<d_buf, d_start, hvars, nvars, mvars, svars>>

\* A label is read and the loop goes on behind it.
DecodeLabel ==
    /\ Running /\ AtByte /\ ~IsPointer /\ Length # 0
    /\ LET label == Slice(d_buf, Top.offset + 1, Top.offset + 1 + Length)
       IN  /\ \A i \in 1..Len(label) : label[i] < 128
           /\ d_stack' = [d_stack EXCEPT ![Len(d_stack)] =
                             [offset |-> Top.offset + 1 + Length,
                              name_parts |-> Append(Top.name_parts, label)]]
    /\ UNCHANGED <<d_buf, d_start, d_status, d_ret, hvars, nvars, mvars, svars>>

\* A label with a byte that is not ASCII: UnicodeDecodeError, or, in the
\* last frame the interpreter allows, the RecursionError of building it.
DecodeLabelFault ==
    /\ Running /\ AtByte /\ ~IsPointer /\ Length # 0
    /\ LET label == Slice(d_buf, Top.offset + 1, Top.offset + 1 + Length)
       IN  \E i \in 1..Len(label) : label[i] >= 128
    /\ IF Len(d_stack) >= RecursionLimit
       THEN DecodeRaise("RecursionError")
       ELSE DecodeRaise("UnicodeDecodeError")
    /\ UNCHANGED <<d_buf, d_start, hvars, nvars, mvars, svars>>

\* The zero byte: the running call returns its name and the offset behind
\* it.  In the last frame the interpreter allows, the filter(...) of the
\* return statement raises RecursionError instead.
DecodeEnd ==
    /\ Running /\ AtByte /\ Length = 0
    /\ IF Len(d_stack) >= RecursionLimit
       THEN DecodeRaise("RecursionError")
       ELSE /\ d_ret' = [ok |-> TRUE, name |-> Join(FilterNone(Top.name_parts)),
                         offset |-> Top.offset + 1]
            /\ d_stack' = Pop
            /\ d_status' = IF Pop = <<>> THEN "returned" ELSE "unwind"
    /\ UNCHANGED <<d_buf, d_start, hvars, nvars, mvars, svars>>

\* A pointer whose second byte lies past the end of the buffer: IndexError.
DecodePointerFault ==
    /\ Running /\ AtByte /\ IsPointer /\ Top.offset + 1 >= Len(d_buf)
    /\ DecodeRaise("IndexError")
    /\ UNCHANGED <<d_buf, d_start, hvars, nvars, mvars, svars>>

\* A pointer: the running call moves past its two bytes and calls itself at
\* the target.  Nothing but the interpreter's limit stops the call.
DecodePointer ==
    /\ Running /\ AtByte /\ IsPointer /\ Top.offset + 1 < Len(d_buf)
    /\ Len(d_stack) < RecursionLimit
    /\ d_stack' = Append([d_stack EXCEPT ![Len(d_stack)].offset = Top.offset + 2],
                         [offset |-> PointerOffset(Length, d_buf[Top.offset + 2]),
                          name_parts |-> <<>>])
    /\ UNCHANGED <<d_buf, d_start, d_status, d_ret, hvars, nvars, mvars, svars>>

\* The call at the interpreter's recursion limit: RecursionError.
DecodeOverflow ==
    /\ Running /\ AtByte /\ IsPointer /\ Top.offset + 1 < Len(d_buf)
    /\ Len(d_stack) >= RecursionLimit
    /\ DecodeRaise("RecursionError")
    /\ UNCHANGED <<d_buf, d_start, hvars, nvars, mvars, svars>>

\* The call made for a pointer has returned: the caller appends the pointed
\* name, leaves its loop and returns with its own offset.
DecodeUnwind ==
    /\ d_status = "unwind"
    /\ d_ret' = [ok |-> TRUE,
                 name |-> Join(FilterNone(Append(Top.name_parts, d_ret.name))),
                 offset |-> Top.offset]
    /\ d_stack' = Pop
    /\ d_status' = IF Pop = <<>> THEN "returned" ELSE "unwind"
    /\ UNCHANGED <<d_buf, d_start, hvars, nvars, mvars, svars>>

NextDecode ==
    \/ DecodeReadFault \/ DecodeLabel \/ DecodeLabelFault \/ DecodeEnd
    \/ DecodePointerFault \/ DecodePointer \/ DecodeOverflow \/ DecodeUnwind

SpecDecode == InitDecode /\ [][NextDecode]_vars

\* The interpreter keeps running the call as long as it has a step to take.
SpecDecodeFair == SpecDecode /\ WF_vars(NextDecode)

\* The stack of calls ends as the function computed in one piece does (on
\* the buffers short enough for the function to be computed in one piece).
DecodeAgrees ==
    (d_status \in {"returned", "raised"} /\ Len(d_buf) <= MaxDatagram) =>
        d_ret = unpack_domain_name(d_buf, d_start)

\* The offsets at which the decodes started at `offsets` make their
\* recursive call: the targets of the first pointer each of them meets.
Targets(data, offsets) ==
    UNION { LET s == ScanToPointer(data, o, <<>>)
            IN  IF s.found THEN {(data[s.pos + 1] % 64) * 256 + data[s.pos + 2]} ELSE {}
            : o \in offsets }

RECURSIVE CallsAfter(_, _, _)
\* Where the call nested 2^k deep under a decode started at `offsets` starts;
\* empty when the chain of pointers ends before.
CallsAfter(data, offsets, k) ==
    IF k = 0 THEN Targets(data, offsets)
    ELSE UNION { CallsAfter(data, {o}, k - 1) : o \in CallsAfter(data, offsets, k - 1) }

RECURSIVE Doublings(_)
\* The least k with 2^k > n.
Doublings(n) == IF n = 0 THEN 0 ELSE 1 + Doublings(n \div 2)

\* Following the pointers met when decoding from d_start comes back to an
\* offset where a decode was already started: the chain then never ends,
\* and a chain of more calls than the buffer has bytes has come back to one.
Cyclic == CallsAfter(d_buf, {d_start}, Doublings(Len(d_buf))) # {}

\* The call is being entered: one frame, at the offset given, no label read.
DecodeStarted ==
    /\ d_status = "run"
    /\ d_stack = <<[offset |-> d_start, name_parts |-> <<>>]>>

MaxRequests == 2

Clients == {1, 2}

\* The return value None, and a returned bytes object.
None == [none |-> TRUE]
Data(bs) == [none |-> FALSE, bytes |-> bs]

\* if response_data: None and the empty bytes object are both false.
Truthy(v) == ~v.none /\ v.bytes # <<>>

\* A query for "a", type A, class IN.
QueryA == DNSMessage_pack(
              DNSMessage(QueryHeader(1, 0), <<DNSQuestion(<<97>>, 1, 1)>>, <<>>)).bytes
\* A query for the root name, the name written as its single zero byte.
QueryRoot == DNSHeader_pack(QueryHeader(1, 0)).bytes \o <<0, 0, 2, 0, 1>>
\* The header of a client that asks for recursion, with an opcode other
\* than 0.
RecursiveHeader(qd) == DNSHeader(4660, 0, 2, 0, 0, 1, 0, 0, 0, qd, 0, 0, 0)
\* Two questions, the second name a pointer to the first at offset 12.
QueryPointer ==
    DNSHeader_pack(RecursiveHeader(2)).bytes \o <<1, 97, 0, 0, 1, 0, 1, 192, 12, 0, 28, 0, 1>>
\* A header declaring one question and nothing behind it.
QueryShort == DNSHeader_pack(QueryHeader(1, 0)).bytes
\* A question whose name is a pointer to itself.
QueryCycle == DNSHeader_pack(QueryHeader(1, 0)).bytes \o <<192, 12, 0, 1, 0, 1>>

RequestInputs == {QueryA, QueryRoot, QueryPointer, QueryShort, QueryCycle}

\* What the resolver may send back: an answer to QueryA, a datagram of no
\* bytes, a datagram that is no DNS message.
AnswerA ==
    DNSMessage_pack(
        DNSMessage(DNSHeader(1234, 1, 0, 0, 0, 1, 1, 0, 0, 1, 1, 0, 0),
                   <<DNSQuestion(<<97>>, 1, 1)>>,
                   <<DNSRecord(<<97>>, 1, 1, 300, <<10, 0, 0, 1>>)>>)).bytes
UpstreamInputs == {AnswerA, <<>>, <<255>>}

NoReply == [n |-> 0, to |-> 0, bytes |-> <<>>]

InitServer ==
    /\ pc = "recvfrom" /\ handled = 0 /\ request_data = <<>> /\ client_address = 0
    /\ request = <<>> /\ sock = <<>> /\ upstream = [kind |-> "pending"]
    /\ response_data = None /\ reply = <<>> /\ sent = NoReply
    /\ failure_built = FALSE /\ raised = "none"
    /\ HOff /\ NOff /\ MOff /\ DOff

\* main: request_data, client_address = server_socket.recvfrom(512)
MainRecv ==
    /\ pc = "recvfrom" /\ handled < MaxRequests
    /\ \E d \in RequestInputs, c \in Clients :
          /\ request_data' = Slice(d, 0, MaxDatagram)
          /\ client_address' = c
    /\ handled' = handled + 1
    /\ request' = <<>> /\ upstream' = [kind |-> "pending"] /\ response_data' = None
    /\ reply' = <<>> /\ failure_built' = FALSE
    /\ pc' = "unpack"
    /\ UNCHANGED <<sock, sent, raised, hvars, nvars, mvars, dvars>>

\* main: recvfrom raises: nothing catches it, main's finally closes the
\* server socket and the process ends.
MainRecvFails ==
    /\ pc = "recvfrom"
    /\ raised' = "OSError"
    /\ pc' = "exited"
    /\ UNCHANGED <<handled, request_data, client_address, request, sock, upstream,
                   response_data, reply, sent, failure_built, hvars, nvars, mvars, dvars>>

\* create_response: request = DNSMessage.unpack(request_data)
CreateResponseUnpack ==
    /\ pc = "unpack"
    /\ LET r == DNSMessage_unpack(request_data)
       IN  /\ r.ok
           /\ request' = r.message
    /\ pc' = "socket"
    /\ UNCHANGED <<handled, request_data, client_address, sock, upstream, response_data,
                   reply, sent, failure_built, raised, hvars, nvars, mvars, dvars>>

\* The unpack raises: nothing in create_response or main catches it, main's
\* finally closes the server socket and the process ends.
CreateResponseUnpackRaises ==
    /\ pc = "unpack"
    /\ LET r == DNSMessage_unpack(request_data)
       IN  /\ ~r.ok
           /\ raised' = r.err
    /\ pc' = "exited"
    /\ UNCHANGED <<handled, request_data, client_address, request, sock, upstream,
                   response_data, reply, sent, failure_built, hvars, nvars, mvars, dvars>>

\* The socket forward_dns_query creates for the call being handled.
NewSocket == [state |-> "open", call |-> handled, query_data |-> request_data,
              sends |-> <<>>]

\* forward_dns_query: a new socket with a timeout of 5 seconds.
ForwardOpen ==
    /\ pc = "socket"
    /\ sock' = Append(sock, NewSocket)
    /\ pc' = "sendto"
    /\ UNCHANGED <<handled, request_data, client_address, request, upstream,
                   response_data, reply, sent, failure_built, raised,
                   hvars, nvars, mvars, dvars>>

\* socket.socket or settimeout raises: both stand before the try, so the
\* error leaves forward_dns_query, create_response and main, whose finally
\* closes the server socket.  When it is settimeout that raises, the socket
\* exists already and no finally closes it.
ForwardOpenFails ==
    /\ pc = "socket"
    /\ \/ sock' = sock
       \/ sock' = Append(sock, NewSocket)
    /\ upstream' = [kind |-> "open_error"]
    /\ raised' = "OSError"
    /\ pc' = "exited"
    /\ UNCHANGED <<handled, request_data, client_address, request,
                   response_data, reply, sent, failure_built, hvars, nvars, mvars, dvars>>

\* forward_socket.sendto(query_data, dns_resolver)
ForwardSend ==
    /\ pc = "sendto"
    /\ sock' = [sock EXCEPT ![Len(sock)].sends = Append(@, sock[Len(sock)].query_data)]
    /\ pc' = "recv"
    /\ UNCHANGED <<handled, request_data, client_address, request, upstream,
                   response_data, reply, sent, failure_built, raised,
                   hvars, nvars, mvars, dvars>>

\* sendto raises: except Exception returns None.
ForwardSendFails ==
    /\ pc = "sendto"
    /\ upstream' = [kind |-> "send_error"]
    /\ response_data' = None
    /\ pc' = "close"
    /\ UNCHANGED <<handled, request_data, client_address, request, sock,
                   reply, sent, failure_built, raised, hvars, nvars, mvars, dvars>>

\* response_data, _ = forward_socket.recvfrom(4096); return response_data
ForwardRecvDatagram ==
    /\ pc = "recv"
    /\ \E d \in UpstreamInputs :
          /\ upstream' = [kind |-> "datagram", data |-> d]
          /\ response_data' = Data(Slice(d, 0, 4096))
    /\ pc' = "close"
    /\ UNCHANGED <<handled, request_data, client_address, request, sock,
                   reply, sent, failure_built, raised, hvars, nvars, mvars, dvars>>

\* No datagram within 5 seconds: except socket.timeout returns None.
ForwardRecvTimeout ==
    /\ pc = "recv"
    /\ upstream' = [kind |-> "timeout"]
    /\ response_data' = None
    /\ pc' = "close"
    /\ UNCHANGED <<handled, request_data, client_address, request, sock,
                   reply, sent, failure_built, raised, hvars, nvars, mvars, dvars>>

\* recvfrom raises another error: except Exception returns None.
ForwardRecvFails ==
    /\ pc = "recv"
    /\ upstream' = [kind |-> "recv_error"]
    /\ response_data' = None
    /\ pc' = "close"
    /\ UNCHANGED <<handled, request_data, client_address, request, sock,
                   reply, sent, failure_built, raised, hvars, nvars, mvars, dvars>>

\* finally: forward_socket.close(), and the function returns.
ForwardClose ==
    /\ pc = "close"
    /\ sock' = [sock EXCEPT ![Len(sock)].state = "closed"]
    /\ pc' = "respond"
    /\ UNCHANGED <<handled, request_data, client_address, request, upstream,
                   response_data, reply, sent, failure_built, raised,
                   hvars, nvars, mvars, dvars>>

\* create_response: if response_data: return response_data
CreateResponseRelay ==
    /\ pc = "respond" /\ Truthy(response_data)
    /\ reply' = response_data.bytes
    /\ pc' = "sendback"
    /\ UNCHANGED <<handled, request_data, client_address, request, sock, upstream,
                   response_data, sent, failure_built, raised, hvars, nvars, mvars, dvars>>

\* The error response of create_response's else branch.
ErrorResponse(req) ==
    DNSMessage(DNSHeader(req.header.id, 1, req.header.opcode, 0, 0, req.header.rd,
                         0, 0, 2, Len(req.questions), 0, 0, 0),
               req.questions, <<>>)

\* create_response: else: build the error response and return it packed.
CreateResponseFailure ==
    /\ pc = "respond" /\ ~Truthy(response_data)
    /\ LET packed == DNSMessage_pack(ErrorResponse(request))
       IN  IF packed.ok
           THEN reply' = packed.bytes /\ pc' = "sendback" /\ raised' = raised
           ELSE reply' = reply /\ pc' = "exited" /\ raised' = packed.err
    /\ failure_built' = TRUE
    /\ UNCHANGED <<handled, request_data, client_address, request, sock, upstream,
                   response_data, sent, hvars, nvars, mvars, dvars>>

\* main: server_socket.sendto(response_data, client_address), then the loop
\* reads the next datagram.
MainSend ==
    /\ pc = "sendback"
    /\ sent' = [n |-> sent.n + 1, to |-> client_address, bytes |-> reply]
    /\ pc' = "recvfrom"
    /\ UNCHANGED <<handled, request_data, client_address, request, sock, upstream,
                   response_data, reply, failure_built, raised,
                   hvars, nvars, mvars, dvars>>

\* main: the reply's sendto raises: nothing catches it, main's finally closes
\* the server socket and the process ends with the reply unsent.
MainSendFails ==
    /\ pc = "sendback"
    /\ raised' = "OSError"
    /\ pc' = "exited"
    /\ UNCHANGED <<handled, request_data, client_address, request, sock, upstream,
                   response_data, reply, sent, failure_built, hvars, nvars, mvars, dvars>>

\* main: except KeyboardInterrupt.  The interrupt may come at any statement
\* of the loop, and the loop ends with no reply to the datagram being
\* handled.  except Exception in forward_dns_query does not catch it; inside
\* the try the finally closes the transient socket.  Outside the try nothing
\* closes it: in socket.socket no socket exists yet, in settimeout it exists
\* and stays open, and in the finally before close() has run it stays open.
MainInterrupt ==
    /\ pc \in {"recvfrom", "unpack", "socket", "sendto", "recv", "close", "respond",
               "sendback"}
    /\ \/ pc \in {"sendto", "recv"}
          /\ sock' = [sock EXCEPT ![Len(sock)].state = "closed"]
       \/ pc = "socket" /\ sock' = Append(sock, NewSocket)
       \/ pc \notin {"sendto", "recv"} /\ sock' = sock
    /\ raised' = "KeyboardInterrupt"
    /\ pc' = "exited"
    /\ UNCHANGED <<handled, request_data, client_address, request, upstream,
                   response_data, reply, sent, failure_built, hvars, nvars, mvars, dvars>>

NextServer ==
    \/ MainRecv \/ MainRecvFails \/ CreateResponseUnpack \/ CreateResponseUnpackRaises
    \/ ForwardOpen \/ ForwardOpenFails \/ ForwardSend \/ ForwardSendFails
    \/ ForwardRecvDatagram \/ ForwardRecvTimeout \/ ForwardRecvFails \/ ForwardClose
    \/ CreateResponseRelay \/ CreateResponseFailure \/ MainSend \/ MainSendFails
    \/ MainInterrupt

SpecServer == InitServer /\ [][NextServer]_vars

\* The relay call of the datagram being handled has returned.
Returned == pc \in {"respond", "sendback"}

\* C3 (as claimed): in every call of forward_dns_query the query is sent as
\* it is and at most once, the call returns the received datagram or None,
\* its socket is closed when the call is left, no socket serves two calls,
\* and no transport error leaves the call: an OSError ends the loop only
\* from main's own recvfrom and sendto, before the call or after it has
\* returned.  A socket is left open only by an interrupt.
C3_Relay ==
    /\ \A i \in 1..Len(sock) :
          /\ Len(sock[i].sends) <= 1
          /\ \A k \in 1..Len(sock[i].sends) : sock[i].sends[k] = sock[i].query_data
          /\ \A j \in 1..Len(sock) : i # j => sock[i].call # sock[j].call
          /\ sock[i].state = "open" =>
                /\ i = Len(sock) /\ sock[i].call = handled
                /\ sock[i].query_data = request_data
                /\ pc \in {"sendto", "recv", "close"} \/ raised = "KeyboardInterrupt"
    /\ pc \in {"sendto", "recv", "close"} => sock[Len(sock)].state = "open"
    /\ Returned =>
          /\ sock # <<>> /\ sock[Len(sock)].call = handled
          /\ sock[Len(sock)].state = "closed"
          /\ IF upstream.kind = "datagram"
             THEN response_data = Data(upstream.data) /\ Len(sock[Len(sock)].sends) = 1
             ELSE response_data = None
                  /\ upstream.kind \in {"send_error", "timeout", "recv_error"}
                  /\ (upstream.kind = "send_error" => sock[Len(sock)].sends = <<>>)
    /\ raised \in {"none", "IndexError", "struct.error", "UnicodeDecodeError",
                   "RecursionError", "OSError", "KeyboardInterrupt"}
    /\ raised # "none" => pc = "exited"
    /\ raised \in {"IndexError", "struct.error", "UnicodeDecodeError", "RecursionError"} =>
          sock = <<>> \/ sock[Len(sock)].call < handled
    /\ raised = "OSError" =>
          \/ handled = 0
          \/ /\ reply # <<>> /\ upstream.kind # "open_error"
             /\ sock # <<>> /\ sock[Len(sock)].call = handled
             /\ sock[Len(sock)].state = "closed"

\* C2 (as claimed): every well-formed datagram read gets exactly one reply,
\* sent to its sender before the next read; the reply is the resolver's
\* datagram unchanged, or the error response, which is built only when the
\* relay returned no datagram.
C2_ReplyPerDatagram ==
    /\ pc = "recvfrom" => sent.n = handled /\ sent.to = client_address
    /\ pc \in {"unpack", "socket", "sendto", "recv", "close", "respond", "sendback"} =>
          sent.n = handled - 1
    /\ pc = "sendback" =>
          \/ upstream.kind = "datagram" /\ ~failure_built /\ reply = upstream.data
          \/ upstream.kind # "datagram" /\ failure_built
    /\ failure_built => upstream.kind # "datagram"

\* C1 (as claimed): when the relay returned no response, the reply decodes to
\* a message with qr=1, rcode=2, ra=0, ancount=0, the request's id, opcode
\* and rd, qdcount the number of the request's questions, and the request's
\* questions in order.
C1_FailureResponse ==
    (pc = "sendback" /\ response_data = None) =>
       LET r == DNSMessage_unpack(reply)
           inp == DNSMessage_unpack(request_data).message
       IN  /\ r.ok
           /\ r.message.header.qr = 1 /\ r.message.header.rcode = 2
           /\ r.message.header.ra = 0 /\ r.message.header.ancount = 0
           /\ r.message.header.id = inp.header.id
           /\ r.message.header.opcode = inp.header.opcode
           /\ r.message.header.rd = inp.header.rd
           /\ r.message.header.qdcount = Len(inp.questions)
           /\ r.message.questions = inp.questions

====
